---- MODULE Spec2Model ----
\* A model of drawUVsFromUSD (src/main.py, src/settings.py): the UV-layout
\* checker that buckets the polygons and the island borders of every mesh
\* primitive into per-UDIM canvases and writes one image per canvas.
\*
\* Coordinates are fixed-point: the integer x stands for the real x / Scale.
\* Python dicts are sequences of <<key, value>> entries in insertion order,
\* Python lists are sequences, 0-based indices stay 0-based (uv_positions is
\* a function on 0..MaxIdx).
EXTENDS Integers, Sequences, FiniteSets, TLC

\* ---------------------------------------------------------------- bounds
\* Fixed-point resolution of UV coordinates.
Scale == 2
\* UV indices of a primitive are 0..MaxIdx.
MaxIdx == 3
\* Nodes of a free-standing edge list are 0..MaxNode; it has at most MaxEdges
\* edges, a union of cycles at most MaxCycleEdges.
MaxNode == 3
MaxEdges == 3
MaxCycleEdges == 4
\* Polygons of the winding classifier: 3..MaxPolyLen points of the integer
\* grid (0..GridMaxU) x (0..GridMaxV).
GridMaxU == 2
GridMaxV == 1
MaxPolyLen == 4
\* Length of the flat UV index array of a free-standing collect run.
MaxFlat == 3
\* Faces of the edge model: 2..MaxFaceLen UV indices.
MaxFaceLen == 4
\* Largest v of the tile resolver's grid (u runs a step past its limit).
MaxV == 2

\* ------------------------------------------------------- program constants
\* The "no tile" sentinel (main.py:20, 34).
NONE == -1
\* First UDIM tile number (main.py:21).
UdimBase == 1001
\* Tiles per row of V (main.py:21) and the u limit of the range test (main.py:19).
UdimRow == 10
UMax == 10
\* Default image size (settings.py:19).
DefaultSize == 2048

\* ------------------------------------------------------------- dict helpers
DictHas(d, k) == \E i \in 1..Len(d) : d[i][1] = k

DictGet(d, k) == d[CHOOSE i \in 1..Len(d) : d[i][1] = k][2]

DictGetOr(d, k, dflt) == IF DictHas(d, k) THEN DictGet(d, k) ELSE dflt

\* d[k] = v: an existing key keeps its place, a new key goes last.
DictPut(d, k, v) ==
    IF DictHas(d, k)
    THEN [i \in 1..Len(d) |-> IF d[i][1] = k THEN <<k, v>> ELSE d[i]]
    ELSE Append(d, <<k, v>>)

DictKeys(d) == [i \in 1..Len(d) |-> d[i][1]]

SeqToSet(s) == {s[i] : i \in 1..Len(s)}

\* ------------------------------------------------------------ UDIM resolver
\* int(x) of a fixed-point x: truncation toward zero.
PyInt(x) == IF x >= 0 THEN x \div Scale ELSE -((-x) \div Scale)

get_udim_from_uv(u, v) ==
    IF u < 0 \/ u > UMax * Scale \/ v < 0
    THEN NONE
    ELSE UdimBase + PyInt(v) * UdimRow + PyInt(u)

\* Faulty variant: the tile of the first vertex stands for the whole polygon.
get_udim_from_uvs_first(uvs) ==
    IF Len(uvs) = 0 THEN NONE ELSE get_udim_from_uv(uvs[1][1], uvs[1][2])

get_udim_from_uvs(uvs) ==
    LET udims == {get_udim_from_uv(uvs[i][1], uvs[i][2]) : i \in 1..Len(uvs)}
    IN IF Cardinality(udims) = 1 THEN CHOOSE t \in udims : TRUE ELSE NONE

\* --------------------------------------------------------------- edge model
RECURSIVE uv_edges_loop(_, _, _, _)
uv_edges_loop(face_uvs, uv_pos, i, edges) ==
    IF i >= Len(face_uvs)
    THEN edges
    ELSE LET a0 == face_uvs[i + 1]
             b0 == face_uvs[((i + 1) % Len(face_uvs)) + 1]
             a == IF a0 > b0 THEN b0 ELSE a0
             b == IF a0 > b0 THEN a0 ELSE b0
         IN uv_edges_loop(face_uvs, uv_pos, i + 1,
                          DictPut(edges, <<a, b>>, <<uv_pos[a], uv_pos[b]>>))

\* Faulty variant: the pair is keyed as it comes, without the swap to (min, max).
RECURSIVE uv_edges_noswap_loop(_, _, _, _)
uv_edges_noswap_loop(face_uvs, uv_pos, i, edges) ==
    IF i >= Len(face_uvs)
    THEN edges
    ELSE LET a == face_uvs[i + 1]
             b == face_uvs[((i + 1) % Len(face_uvs)) + 1]
         IN uv_edges_noswap_loop(face_uvs, uv_pos, i + 1,
                                 DictPut(edges, <<a, b>>, <<uv_pos[a], uv_pos[b]>>))

get_uv_edges_from_face_noswap(face_uvs, uv_pos) ==
    uv_edges_noswap_loop(face_uvs, uv_pos, 0, <<>>)

get_uv_edges_from_face(face_uvs, uv_pos) ==
    uv_edges_loop(face_uvs, uv_pos, 0, <<>>)

\* -------------------------------------------------------- winding classifier
RECURSIVE area_loop(_, _, _)
area_loop(faces, i, area) ==
    IF i >= Len(faces)
    THEN area
    ELSE LET p1 == faces[i + 1]
             p2 == faces[((i + 1) % Len(faces)) + 1]
         IN area_loop(faces, i + 1,
                      area + (p2[1] - p1[1]) * (p2[2] + p1[2]))

\* Faulty variant: a zero sum counts as front-facing.
is_front_facing_le(faces) == area_loop(faces, 0, 0) <= 0

is_front_facing(faces) == area_loop(faces, 0, 0) < 0

\* ---------------------------------------------------------- adjacency graph
RECURSIVE build_graph_loop(_, _, _)
build_graph_loop(edges, i, g) ==
    IF i > Len(edges)
    THEN g
    ELSE LET a == edges[i][1]
             b == edges[i][2]
             g1 == DictPut(g, a, Append(DictGetOr(g, a, <<>>), b))
             g2 == DictPut(g1, b, Append(DictGetOr(g1, b, <<>>), a))
         IN build_graph_loop(edges, i + 1, g2)

\* Faulty variant: an edge is recorded in one direction only.
RECURSIVE build_graph_one_way_loop(_, _, _)
build_graph_one_way_loop(edges, i, g) ==
    IF i > Len(edges)
    THEN g
    ELSE LET a == edges[i][1]
             b == edges[i][2]
         IN build_graph_one_way_loop(edges, i + 1,
                DictPut(g, a, Append(DictGetOr(g, a, <<>>), b)))

build_graph_one_way(edges) == build_graph_one_way_loop(edges, 1, <<>>)

build_graph(edges) == build_graph_loop(edges, 1, <<>>)

\* ------------------------------------------------------------ loop extraction
\* graph[node] of a defaultdict(list): a missing key reads as the empty list
\* and is inserted.
DefaultDictRead(g, k) == IF DictHas(g, k) THEN g ELSE Append(g, <<k, <<>>>>)

\* Entries of uv_edges with count 1, in insertion order (main.py:197).
RECURSIVE SelectSeq2(_, _)
SelectSeq2(d, i) ==
    IF i > Len(d)
    THEN <<>>
    ELSE IF d[i][2] = 1
         THEN <<d[i][1]>> \o SelectSeq2(d, i + 1)
         ELSE SelectSeq2(d, i + 1)

\* Faulty variant: every counted edge is taken for a border edge.
border_adjacency_list_all(uv_edges_d) == DictKeys(uv_edges_d)

border_adjacency_list(uv_edges_d) == SelectSeq2(uv_edges_d, 1)

\* ------------------------------------------------------------- draw requests
ScaledPoint(uv, size) == <<uv[1] * size, (Scale - uv[2]) * size>>

draw_polygon(polygon, canvas, size) ==
    LET scaled_polygon == [i \in 1..Len(polygon) |-> ScaledPoint(polygon[i], size)]
    IN << [canvas |-> canvas, points |-> scaled_polygon, close |-> TRUE,
           paint |-> IF is_front_facing(polygon) THEN "front_facing"
                                                 ELSE "back_facing"],
          [canvas |-> canvas, points |-> scaled_polygon, close |-> TRUE,
           paint |-> "internal_edges"] >>

draw_border_edges(path_idx, uv_pos, canvas, size) ==
    LET scaled_path == [i \in 1..Len(path_idx) |-> ScaledPoint(uv_pos[path_idx[i]], size)]
    IN << [canvas |-> canvas, points |-> scaled_path, close |-> TRUE,
           paint |-> "border_edges"] >>

\* ------------------------------------------------------------- output naming
\* str.split('#')
RECURSIVE split_loop(_, _, _, _)
split_loop(s, i, cur, acc) ==
    IF i > Len(s)
    THEN Append(acc, cur)
    ELSE IF s[i] = "#"
         THEN split_loop(s, i + 1, <<>>, Append(acc, cur))
         ELSE split_loop(s, i + 1, Append(cur, s[i]), acc)

PySplit(s) == split_loop(s, 1, <<>>, <<>>)

Digit(d) == <<"0", "1", "2", "3", "4", "5", "6", "7", "8", "9">>[d + 1]

RECURSIVE nat_str(_)
nat_str(n) == IF n < 10 THEN <<Digit(n)>> ELSE Append(nat_str(n \div 10), Digit(n % 10))

\* str(n) of an int, as the f-string formats the tile.
PyStr(n) == IF n < 0 THEN <<"-">> \o nat_str(-n) ELSE nat_str(n)

\* ------------------------------------------------------------------- inputs
\* UV positions of the scenes: (0.5, 0.5) in tile 1001, (1.5, 0.5) in tile
\* 1002, (-0.5, 0.5) out of range.
Coords == {<<1, 1>>, <<3, 1>>, <<-1, 1>>}

UVIndex == 0..MaxIdx

\* Face layouts of a primitive: (face_vert_count, flat uv index array).
Meshes ==
    { [counts |-> <<4>>,       indices |-> <<0, 1, 2, 3>>],
      [counts |-> <<3, 3>>,    indices |-> <<0, 1, 2, 2, 1, 3>>],
      [counts |-> <<3, 3, 3>>, indices |-> <<0, 1, 2, 0, 2, 3, 0, 3, 1>>],
      [counts |-> <<2>>,       indices |-> <<0, 1>>],
      [counts |-> <<>>,        indices |-> <<>>] }

\* settings.py:18: the default "output.png", and a pattern with the marker.
DefaultOutputPath == <<"o", "u", "t", "p", "u", "t", ".", "p", "n", "g">>

OutputPaths == {DefaultOutputPath, <<"u", "v", ".", "#", ".", "p", "n", "g">>}

\* -------------------------------------------------------------------- state
VARIABLES
    pc,             \* position in main()
    error,          \* "none", or the exception that ended the run
    output_path,    \* settings.output_path
    skia_surfaces,  \* keys of the tile -> surface dict, in insertion order
    issued,         \* draw requests issued by the latest routing step
    files,          \* paths written by image.save, in order
    routed,         \* tiles the polygons routed so far resolved to (history)
    face_vert_count, uv_indicies, uv_positions,   \* the current primitive
    index, fi,      \* running offset and face counter of the collect loop
    polygons, uv_edges,
    adjacency_list, graph, visited, stack, path, paths, ki,
    border_edges, pi, bi, si,
    call, ret       \* a single function applied to drawn arguments

vars == <<pc, error, output_path, skia_surfaces, issued, files, routed,
          face_vert_count, uv_indicies, uv_positions, index, fi,
          polygons, uv_edges, adjacency_list, graph, visited, stack, path,
          paths, ki, border_edges, pi, bi, si, call, ret>>

primVars == <<face_vert_count, uv_indicies, uv_positions, index, fi,
              polygons, uv_edges>>
graphVars == <<adjacency_list, graph, visited, stack, path, paths, ki>>
outVars == <<error, output_path, skia_surfaces, issued, files, routed>>
routeVars == <<border_edges, pi, bi, si>>
pureVars == <<call, ret>>

NoCall == [fn |-> "none"]

LocalsInit ==
    /\ face_vert_count = <<>> /\ uv_indicies = <<>> /\ uv_positions = <<>>
    /\ index = 0 /\ fi = 0 /\ polygons = <<>> /\ uv_edges = <<>>
    /\ adjacency_list = <<>> /\ graph = <<>> /\ visited = {} /\ stack = <<>>
    /\ path = <<>> /\ paths = <<>> /\ ki = 0
    /\ border_edges = <<>> /\ pi = 0 /\ bi = 0 /\ si = 0

OutInit ==
    /\ error = "none" /\ skia_surfaces = <<>> /\ issued = <<>>
    /\ files = <<>> /\ routed = {}

\* main.py:208-212
Init ==
    /\ pc = "prims"
    /\ output_path \in OutputPaths
    /\ OutInit /\ LocalsInit
    /\ call = NoCall /\ ret = NoCall

\* ------------------------------------------------------------------ actions
\* main.py:214-226: the next mesh primitive with an "st" primvar.
StartPrim ==
    /\ pc = "prims"
    /\ \E m \in Meshes, pos \in [UVIndex -> Coords] :
         /\ face_vert_count' = m.counts
         /\ uv_indicies' = m.indices
         /\ uv_positions' = pos
    /\ polygons' = <<>> /\ uv_edges' = <<>>
    /\ index' = 0 /\ fi' = 0
    /\ issued' = <<>>
    /\ pc' = "collect"
    /\ UNCHANGED <<error, output_path, skia_surfaces, files, routed>>
    /\ UNCHANGED <<graphVars, routeVars, pureVars>>

\* main.py:214-223: a mesh primitive without the primvar contributes nothing.
SkipPrim ==
    /\ pc = "prims"
    /\ polygons' = <<>> /\ uv_edges' = <<>>
    /\ issued' = <<>>
    /\ UNCHANGED <<pc, error, output_path, skia_surfaces, files, routed>>
    /\ UNCHANGED <<face_vert_count, uv_indicies, uv_positions, index, fi>>
    /\ UNCHANGED <<graphVars, routeVars, pureVars>>

\* uv_indicies[index:index + count]
Slice(s, from, count) ==
    LET hi == IF from + count > Len(s) THEN Len(s) ELSE from + count
    IN [i \in 1..(IF hi > from THEN hi - from ELSE 0) |-> s[from + i]]

\* main.py:233-234: one more face on every edge key of the face.
RECURSIVE count_edges(_, _, _)
count_edges(counts, edges, i) ==
    IF i > Len(edges)
    THEN counts
    ELSE LET edge == edges[i][1]
         IN count_edges(DictPut(counts, edge, DictGetOr(counts, edge, 0) + 1),
                        edges, i + 1)

\* main.py:228-235: one iteration of the collect loop, or its exit.
Collect ==
    /\ pc = "collect"
    /\ IF fi < Len(face_vert_count)
       THEN LET count == face_vert_count[fi + 1]
                face_uvs == Slice(uv_indicies, index, count)
                edges == get_uv_edges_from_face(face_uvs, uv_positions)
                polygon == [i \in 1..Len(face_uvs) |-> uv_positions[face_uvs[i]]]
            IN /\ polygons' = Append(polygons, polygon)
               /\ uv_edges' = count_edges(uv_edges, edges, 1)
               /\ index' = index + count
               /\ fi' = fi + 1
               /\ pc' = "collect"
       ELSE /\ pc' = "border"
            /\ UNCHANGED <<polygons, uv_edges, index, fi>>
    /\ UNCHANGED <<face_vert_count, uv_indicies, uv_positions>>
    /\ UNCHANGED <<outVars, graphVars, routeVars, pureVars>>

\* main.py:237, 197: get_border_edges filters the edges counted once.
GetBorderEdges ==
    /\ pc = "border"
    /\ adjacency_list' = border_adjacency_list(uv_edges)
    /\ pc' = "build"
    /\ UNCHANGED <<graph, visited, stack, path, paths, ki>>
    /\ UNCHANGED <<outVars, primVars, routeVars, pureVars>>

\* main.py:198, 122-123: build_graph, then get_paths_from_graph starts.
BuildGraph ==
    /\ pc = "build"
    /\ graph' = build_graph(adjacency_list)
    /\ visited' = {} /\ paths' = <<>> /\ ki' = 0
    /\ pc' = "paths"
    /\ UNCHANGED <<adjacency_list, stack, path>>
    /\ UNCHANGED <<outVars, primVars, routeVars, pureVars>>

\* main.py:124-127, 101-102: the next key of the graph, or the return of the paths.
NextKey ==
    /\ pc = "paths"
    /\ IF ki < Len(graph)
       THEN LET key == graph[ki + 1][1]
            IN /\ ki' = ki + 1
               /\ IF key \notin visited
                  THEN /\ path' = <<>> /\ stack' = <<key>>
                       /\ pc' = "traverse"
                  ELSE UNCHANGED <<path, stack, pc>>
               /\ UNCHANGED <<border_edges, pi>>
       ELSE /\ border_edges' = paths
            /\ pi' = 0
            /\ pc' = "route_polys"
            /\ UNCHANGED <<ki, path, stack>>
    /\ UNCHANGED <<adjacency_list, graph, visited, paths, bi, si>>
    /\ UNCHANGED <<outVars, primVars, pureVars>>

\* Faulty variant: the stack is read as a queue.
PopIndexFront(stk) == 1

\* stack.pop() takes the last element.
PopIndex(stk) == Len(stk)

RemoveAt(stk, k) == [i \in 1..(Len(stk) - 1) |-> IF i < k THEN stk[i] ELSE stk[i + 1]]

\* main.py:104-110, 126: one iteration of the while loop, or its exit.
TraverseStep ==
    /\ pc = "traverse"
    /\ IF stack # <<>>
       THEN LET node == stack[PopIndex(stack)]
                rest == RemoveAt(stack, PopIndex(stack))
            IN IF node \notin visited
               THEN /\ visited' = visited \cup {node}
                    /\ path' = Append(path, node)
                    /\ graph' = DefaultDictRead(graph, node)
                    /\ stack' = rest \o DictGetOr(graph, node, <<>>)
                    /\ UNCHANGED <<paths, pc>>
               ELSE /\ stack' = rest
                    /\ UNCHANGED <<visited, path, graph, paths, pc>>
       ELSE /\ paths' = Append(paths, path)
            /\ pc' = "paths"
            /\ UNCHANGED <<visited, path, graph, stack>>
    /\ UNCHANGED <<adjacency_list, ki>>
    /\ UNCHANGED <<outVars, primVars, routeVars, pureVars>>

\* main.py:239-246: one polygon routed, or the loop's exit.
RoutePolygon ==
    /\ pc = "route_polys"
    /\ IF pi < Len(polygons)
       THEN LET polygon == polygons[pi + 1]
                udim == get_udim_from_uvs(polygon)
            IN /\ skia_surfaces' = IF udim \notin SeqToSet(skia_surfaces)
                                   THEN Append(skia_surfaces, udim)
                                   ELSE skia_surfaces
               /\ issued' = IF udim # NONE
                            THEN draw_polygon(polygon, udim, DefaultSize)
                            ELSE <<>>
               /\ routed' = routed \cup {udim}
               /\ pi' = pi + 1
               /\ UNCHANGED <<pc, bi>>
       ELSE /\ pc' = "route_borders"
            /\ bi' = 0
            /\ issued' = <<>>
            /\ UNCHANGED <<skia_surfaces, routed, pi>>
    /\ UNCHANGED <<error, output_path, files, border_edges, si>>
    /\ UNCHANGED <<primVars, graphVars, pureVars>>

\* main.py:248-252: one border loop routed, or the end of the primitive.
RouteBorder ==
    /\ pc = "route_borders"
    /\ IF bi < Len(border_edges)
       THEN LET border == border_edges[bi + 1]
                udim == get_udim_from_uvs(
                            [i \in 1..Len(border) |-> uv_positions[border[i]]])
            IN /\ bi' = bi + 1
               /\ IF udim # NONE
                  THEN IF udim \in SeqToSet(skia_surfaces)
                       THEN /\ issued' = draw_border_edges(border, uv_positions,
                                                           udim, DefaultSize)
                            /\ UNCHANGED <<pc, error>>
                       ELSE /\ pc' = "error"
                            /\ error' = "KeyError"
                            /\ issued' = <<>>
                  ELSE /\ issued' = <<>>
                       /\ UNCHANGED <<pc, error>>
               /\ UNCHANGED <<primVars, graphVars, border_edges, pi>>
       ELSE /\ pc' = "prims"
            /\ issued' = <<>>
            /\ error' = error
            \* the primitive's locals are dead from here on
            /\ face_vert_count' = <<>> /\ uv_indicies' = <<>> /\ uv_positions' = <<>>
            /\ index' = 0 /\ fi' = 0 /\ polygons' = <<>> /\ uv_edges' = <<>>
            /\ adjacency_list' = <<>> /\ graph' = <<>> /\ visited' = {}
            /\ stack' = <<>> /\ path' = <<>> /\ paths' = <<>> /\ ki' = 0
            /\ border_edges' = <<>> /\ pi' = 0 /\ bi' = 0
    /\ UNCHANGED <<output_path, skia_surfaces, files, routed, si, pureVars>>

\* main.py:214, 255: the primitives are exhausted.
EndPrims ==
    /\ pc = "prims"
    /\ pc' = "finalize"
    /\ si' = 0
    /\ issued' = <<>>
    /\ UNCHANGED <<error, output_path, skia_surfaces, files, routed>>
    /\ UNCHANGED <<primVars, graphVars, border_edges, pi, bi, pureVars>>

\* main.py:255-258: one surface saved, or the end of the run.
Finalize ==
    /\ pc = "finalize"
    /\ IF si < Len(skia_surfaces)
       THEN LET surface == skia_surfaces[si + 1]
                parts == PySplit(output_path)
            IN IF Len(parts) = 2
               THEN /\ files' = Append(files, parts[1] \o PyStr(surface) \o parts[2])
                    /\ si' = si + 1
                    /\ UNCHANGED <<pc, error>>
               ELSE /\ pc' = "error"
                    /\ error' = "ValueError"
                    /\ UNCHANGED <<files, si>>
       ELSE /\ pc' = "done"
            /\ UNCHANGED <<files, si, error>>
    /\ UNCHANGED <<output_path, skia_surfaces, issued, routed>>
    /\ UNCHANGED <<primVars, graphVars, border_edges, pi, bi, pureVars>>

Next ==
    \/ StartPrim
    \/ SkipPrim
    \/ Collect
    \/ GetBorderEdges
    \/ BuildGraph
    \/ NextKey
    \/ TraverseStep
    \/ RoutePolygon
    \/ RouteBorder
    \/ EndPrims
    \/ Finalize

Spec == Init /\ [][Next]_vars

\* ------------------------------------------- loop extraction on any edge list
CanonEdges == {<<a, b>> \in (0..MaxNode) \X (0..MaxNode) : a <= b}

EdgeLists(n) == UNION {[1..k -> CanonEdges] : k \in 0..n}

\* Occurrences of node n as an endpoint in the edge list.
Degree(edges, n) ==
    Cardinality({i \in 1..Len(edges) : edges[i][1] = n})
    + Cardinality({i \in 1..Len(edges) : edges[i][2] = n})

EdgeNodes(edges) == {edges[i][1] : i \in 1..Len(edges)} \cup {edges[i][2] : i \in 1..Len(edges)}

GraphCallInit ==
    /\ pc = "build"
    /\ output_path = DefaultOutputPath
    /\ OutInit
    /\ face_vert_count = <<>> /\ uv_indicies = <<>> /\ uv_positions = <<>>
    /\ index = 0 /\ fi = 0 /\ polygons = <<>> /\ uv_edges = <<>>
    /\ graph = <<>> /\ visited = {} /\ stack = <<>>
    /\ path = <<>> /\ paths = <<>> /\ ki = 0
    /\ border_edges = <<>> /\ pi = 0 /\ bi = 0 /\ si = 0
    /\ call = NoCall /\ ret = NoCall

\* get_paths_from_graph(build_graph(edges)) on any list of edge keys.
InitGraph ==
    /\ adjacency_list \in EdgeLists(MaxEdges)
    /\ GraphCallInit

NextGraph ==
    \/ BuildGraph
    \/ NextKey
    \/ TraverseStep

SpecGraph == InitGraph /\ [][NextGraph]_vars

\* The same on the boundary graphs of clean islands: every node of degree 2.
InitCycles ==
    /\ adjacency_list \in EdgeLists(MaxCycleEdges)
    /\ \A n \in EdgeNodes(adjacency_list) : Degree(adjacency_list, n) = 2
    /\ GraphCallInit

SpecCycles == InitCycles /\ [][NextGraph]_vars

\* ------------------------------------------------- single functions applied
PureInit ==
    /\ pc = "call"
    /\ output_path = DefaultOutputPath
    /\ OutInit /\ LocalsInit
    /\ ret = NoCall

GridPoints == (0..GridMaxU) \X (0..GridMaxV)

GridPolygons(maxLen) == UNION {[1..n -> GridPoints] : n \in 3..maxLen}

InitWinding ==
    /\ call \in {[fn |-> "is_front_facing", faces |-> P] : P \in GridPolygons(MaxPolyLen)}
    /\ PureInit

CallIsFrontFacing ==
    /\ pc = "call"
    /\ call.fn = "is_front_facing"
    /\ ret' = [fn |-> call.fn, value |-> is_front_facing(call.faces)]
    /\ pc' = "return"
    /\ UNCHANGED <<call, outVars, primVars, graphVars, routeVars>>

SpecWinding == InitWinding /\ [][CallIsFrontFacing]_vars

\* UV positions that tell the indices apart.
IndexedPositions == [i \in UVIndex |-> <<i, MaxIdx - i>>]

IndexFaces(maxLen) == UNION {[1..n -> UVIndex] : n \in 2..maxLen}

InitEdges ==
    /\ call \in {[fn |-> "get_uv_edges_from_face", face_uvs |-> f,
                  uv_positions |-> IndexedPositions] : f \in IndexFaces(MaxFaceLen)}
    /\ PureInit

CallGetUvEdges ==
    /\ pc = "call"
    /\ call.fn = "get_uv_edges_from_face"
    /\ ret' = [fn |-> call.fn,
               value |-> get_uv_edges_from_face(call.face_uvs, call.uv_positions)]
    /\ pc' = "return"
    /\ UNCHANGED <<call, outVars, primVars, graphVars, routeVars>>

SpecEdges == InitEdges /\ [][CallGetUvEdges]_vars

\* The fixed-point grid of the tile resolver: u from below 0 to past its
\* limit, v from below 0 to MaxV.
UdimGrid(maxV) == ((-1)..(UMax * Scale + 1)) \X ((-1)..(maxV * Scale))

InitUdim ==
    /\ call \in {[fn |-> "get_udim_from_uv", a |-> a, b |-> b] :
                    a \in UdimGrid(MaxV), b \in UdimGrid(MaxV)}
    /\ PureInit

CallGetUdim ==
    /\ pc = "call"
    /\ call.fn = "get_udim_from_uv"
    /\ ret' = [fn |-> call.fn,
               value |-> <<get_udim_from_uv(call.a[1], call.a[2]),
                           get_udim_from_uv(call.b[1], call.b[2])>>]
    /\ pc' = "return"
    /\ UNCHANGED <<call, outVars, primVars, graphVars, routeVars>>

SpecUdim == InitUdim /\ [][CallGetUdim]_vars

\* --------------------------------------------- collect on any list of faces
RECURSIVE SumSeq(_)
SumSeq(s) == IF s = <<>> THEN 0 ELSE s[1] + SumSeq(Tail(s))

\* face_vert_count arrays of positive counts that sum to n.
CountArrays(n) == {c \in UNION {[1..k -> 1..n] : k \in 0..n} : SumSeq(c) = n}

FlatMeshes(maxLen) ==
    UNION {{[counts |-> c, indices |-> ix] : c \in CountArrays(n), ix \in [1..n -> UVIndex]} :
              n \in 0..maxLen}

\* The collect loop and get_border_edges up to the built graph, for one
\* primitive with any faces.
InitCollect ==
    /\ pc = "collect"
    /\ output_path = DefaultOutputPath
    /\ OutInit
    /\ \E m \in FlatMeshes(MaxFlat) \cup Meshes :
         /\ face_vert_count = m.counts
         /\ uv_indicies = m.indices
    /\ uv_positions = IndexedPositions
    /\ index = 0 /\ fi = 0 /\ polygons = <<>> /\ uv_edges = <<>>
    /\ adjacency_list = <<>> /\ graph = <<>> /\ visited = {} /\ stack = <<>>
    /\ path = <<>> /\ paths = <<>> /\ ki = 0
    /\ border_edges = <<>> /\ pi = 0 /\ bi = 0 /\ si = 0
    /\ call = NoCall /\ ret = NoCall

NextCollect ==
    \/ Collect
    \/ GetBorderEdges
    \/ BuildGraph

SpecCollect == InitCollect /\ [][NextCollect]_vars

\* ---------------------------------------------------------------- properties
Canon(a, b) == IF a <= b THEN <<a, b>> ELSE <<b, a>>

KeySet(d) == {d[i][1] : i \in 1..Len(d)}

\* Tiles of the single vertices of a polygon or loop.
VertexTiles(uvs) == {get_udim_from_uv(uvs[i][1], uvs[i][2]) : i \in 1..Len(uvs)}

OneTile(uvs) == \E T \in VertexTiles(uvs) : T # NONE /\ VertexTiles(uvs) = {T}

\* C1: a polygon that was just routed received one fill followed by one
\* internal-edge stroke, both on the canvas keyed T, exactly when all its
\* vertices resolve through get_udim_from_uv to one tile T that is not NONE;
\* a polygon that spans tiles or has an out-of-range vertex received nothing.
C1_RoutePolygons ==
    (pc = "route_polys" /\ pi > 0) =>
        LET polygon == polygons[pi]
        IN IF OneTile(polygon)
           THEN LET T == CHOOSE T \in VertexTiles(polygon) : TRUE
                IN /\ Len(issued) = 2
                   /\ issued[1].paint \in {"front_facing", "back_facing"}
                   /\ issued[2].paint = "internal_edges"
                   /\ \A i \in 1..2 : issued[i].canvas = T
                   /\ T \in SeqToSet(skia_surfaces)
           ELSE issued = <<>>

\* A polygon drawn on tile 1002 after the first polygon of the primitive
\* spanned two tiles.
C1_Witness ==
    /\ pc = "route_polys" /\ pi > 1
    /\ Cardinality(VertexTiles(polygons[1])) = 2
    /\ Len(issued) = 2
    /\ issued[1].canvas = UdimBase + 1

\* C2: the tiles that have a canvas are the non-NONE tiles that routed
\* polygons resolved to, the sentinel never has a canvas, and a finished run
\* wrote as many files as there are distinct non-NONE polygon tiles.
C2_LazyCanvas ==
    /\ SeqToSet(skia_surfaces) = routed \ {NONE}
    /\ NONE \notin SeqToSet(skia_surfaces)
    /\ (pc = "done" => Len(files) = Cardinality(routed \ {NONE}))

\* C3: a border loop that was just routed got exactly one closed border
\* stroke on the canvas of its tile T when its member positions resolve to
\* one tile T that is not NONE, and nothing otherwise; routing a loop never
\* raises.
C3_RouteBoundaries ==
    /\ error # "KeyError"
    /\ (pc = "route_borders" /\ bi > 0) =>
          LET border == border_edges[bi]
              uvs == [i \in 1..Len(border) |-> uv_positions[border[i]]]
          IN IF OneTile(uvs)
             THEN /\ Len(issued) = 1
                  /\ issued[1].paint = "border_edges"
                  /\ issued[1].close
                  /\ issued[1].canvas \in VertexTiles(uvs)
             ELSE issued = <<>>

\* The faces of the current primitive, sliced by the counts.
FaceStart(k) == SumSeq(SubSeq(face_vert_count, 1, k - 1))

FaceAt(k) == [i \in 1..face_vert_count[k] |-> uv_indicies[FaceStart(k) + i]]

FaceHasEdge(f, e) == \E i \in 1..Len(f) : Canon(f[i], f[(i % Len(f)) + 1]) = e

Incidence(e) ==
    Cardinality({k \in 1..Len(face_vert_count) : FaceHasEdge(FaceAt(k), e)})

AllEdgeKeys == {<<a, b>> \in UVIndex \X UVIndex : a <= b}

GraphEdges(g) ==
    UNION {{Canon(g[i][1], g[i][2][j]) : j \in 1..Len(g[i][2])} : i \in 1..Len(g)}

\* C4: once the collect loop is over, the count of every canonical edge is
\* the number of faces that contain it as a consecutive pair (wrap-around
\* included), and the graph handed to loop extraction has exactly the edges
\* of count 1.
C4_BoundaryClassification ==
    /\ pc \in {"border", "build", "paths"} =>
          /\ \A e \in AllEdgeKeys : DictGetOr(uv_edges, e, 0) = Incidence(e)
          /\ KeySet(uv_edges) \subseteq AllEdgeKeys
          /\ Cardinality(KeySet(uv_edges)) = Len(uv_edges)
    /\ pc = "paths" =>
          GraphEdges(graph) = {e \in AllEdgeKeys : Incidence(e) = 1}

\* Faces [0,1,2] and [2,1,3]: the shared edge {1,2} is counted twice and is
\* not in the graph, the other four edges are.
C4_Witness ==
    /\ pc = "paths"
    /\ face_vert_count = <<3, 3>>
    /\ uv_indicies = <<0, 1, 2, 2, 1, 3>>
    /\ DictGet(uv_edges, <<1, 2>>) = 2
    /\ GraphEdges(graph) = {<<0, 1>>, <<0, 2>>, <<1, 3>>, <<2, 3>>}

\* Nodes reachable from the set S along the edges of the list.
RECURSIVE Closure(_, _)
Closure(edges, S) ==
    LET T == S \cup {edges[i][2] : i \in {j \in 1..Len(edges) : edges[j][1] \in S}}
               \cup {edges[i][1] : i \in {j \in 1..Len(edges) : edges[j][2] \in S}}
    IN IF T = S THEN S ELSE Closure(edges, T)

Components(edges) == {Closure(edges, {n}) : n \in EdgeNodes(edges)}

LoopPartition ==
    /\ \A i \in 1..Len(border_edges) :
          /\ Cardinality(SeqToSet(border_edges[i])) = Len(border_edges[i])
          /\ SeqToSet(border_edges[i]) \in Components(adjacency_list)
    /\ \A i, j \in 1..Len(border_edges) :
          i # j => SeqToSet(border_edges[i]) \cap SeqToSet(border_edges[j]) = {}
    /\ UNION {SeqToSet(border_edges[i]) : i \in 1..Len(border_edges)}
          = EdgeNodes(adjacency_list)
    /\ KeySet(graph) = EdgeNodes(adjacency_list)
    /\ Len(border_edges) = Cardinality(Components(adjacency_list))

\* What the nodes of S will still cost: each is visited once and pushes
\* its neighbours.
RECURSIVE PushesLeft(_, _)
PushesLeft(g, S) ==
    IF S = {} THEN 0
    ELSE LET n == CHOOSE x \in S : TRUE
         IN 2 * Len(DictGet(g, n)) + 2 + PushesLeft(g, S \ {n})

\* Work left to the two loops of get_paths_from_graph: keys still to come,
\* stack entries still to pop, and the neighbours the unvisited nodes will
\* still push.
WorkLeft ==
    IF pc = "route_polys" THEN 0
    ELSE LET g == IF pc = "build" THEN build_graph(adjacency_list) ELSE graph
         IN 1 + (IF pc = "build" THEN 1 ELSE 0)
              + (IF pc = "traverse" THEN 1 ELSE 0)
              + 4 * (Len(g) - ki)
              + 2 * Len(stack)
              + PushesLeft(g, KeySet(g) \ visited)

\* C5: get_paths_from_graph on the graph of any edge list returns (every
\* step uses up work that is left, of which there is never less than none,
\* and until the return the run is at one of the three steps, each of which
\* is guarded by the position alone), and the loops it returns hold every
\* node exactly once, each loop being one connected component and there
\* being one loop per component.
C5_LoopPartition ==
    /\ [](pc = "route_polys" => LoopPartition)
    /\ [](WorkLeft >= 0)
    /\ [](pc # "route_polys" => pc \in {"build", "paths", "traverse"})
    /\ [][WorkLeft' < WorkLeft]_vars

\* Two components out of three edges, one of them with a repeated edge.
C5_Witness ==
    /\ pc = "route_polys"
    /\ Len(adjacency_list) = 3
    /\ Len(border_edges) = 2
    /\ \E i \in 1..2 : Len(border_edges[i]) = 3

\* C9: on a boundary graph whose nodes all have degree 2, every returned
\* loop is in cyclic order: consecutive nodes, and the last with the first,
\* are joined by an edge of the list; a single cycle comes back as one loop
\* of all its nodes.
C9_CyclicOrder ==
    pc = "route_polys" =>
        /\ \A k \in 1..Len(border_edges) :
              LET loop == border_edges[k]
              IN \A i \in 1..Len(loop) :
                    Canon(loop[i], loop[(i % Len(loop)) + 1]) \in SeqToSet(adjacency_list)
        /\ Cardinality(Components(adjacency_list)) = 1 =>
              /\ Len(border_edges) = 1
              /\ SeqToSet(border_edges[1]) = EdgeNodes(adjacency_list)
              /\ Len(border_edges[1]) = Cardinality(EdgeNodes(adjacency_list))

\* A simple 4-gon given with its edges out of order, returned as one loop.
C9_Witness ==
    /\ pc = "route_polys"
    /\ Len(border_edges) = 1
    /\ Len(border_edges[1]) = 4
    /\ adjacency_list[1] = <<2, 3>>
    /\ adjacency_list[2] = <<0, 1>>

\* ------------------------------------------------------------------ winding
Reverse(s) == [i \in 1..Len(s) |-> s[Len(s) + 1 - i]]

NextIdx(s, i) == (i % Len(s)) + 1

RECURSIVE SumOver(_, _)
SumOver(s, n) ==
    IF n = 0 THEN 0
    ELSE (s[NextIdx(s, n)][1] - s[n][1]) * (s[NextIdx(s, n)][2] + s[n][2])
         + SumOver(s, n - 1)

\* The sum of (u2 - u1) * (v2 + v1) over the consecutive pairs.
TrapezoidSum(s) == SumOver(s, Len(s))

Cross(p, q, r) == (q[1] - p[1]) * (r[2] - p[2]) - (q[2] - p[2]) * (r[1] - p[1])

Sign(x) == IF x > 0 THEN 1 ELSE IF x < 0 THEN -1 ELSE 0

Between(a, x, b) == (IF a <= b THEN a ELSE b) <= x /\ x <= (IF a <= b THEN b ELSE a)

\* r on the closed segment pq, r known to be collinear with it.
OnSegment(p, q, r) == Between(p[1], r[1], q[1]) /\ Between(p[2], r[2], q[2])

\* The closed segments ab and cd have a common point.
SegmentsMeet(a, b, c, d) ==
    LET o1 == Sign(Cross(a, b, c))
        o2 == Sign(Cross(a, b, d))
        o3 == Sign(Cross(c, d, a))
        o4 == Sign(Cross(c, d, b))
    IN \/ (o1 # o2 /\ o3 # o4)
       \/ (o1 = 0 /\ OnSegment(a, b, c))
       \/ (o2 = 0 /\ OnSegment(a, b, d))
       \/ (o3 = 0 /\ OnSegment(c, d, a))
       \/ (o4 = 0 /\ OnSegment(c, d, b))

\* Edges ab and bc fold back onto each other.
FoldsBack(a, b, c) ==
    /\ Cross(a, b, c) = 0
    /\ (a[1] - b[1]) * (c[1] - b[1]) + (a[2] - b[2]) * (c[2] - b[2]) > 0

\* A simple closed polygon: at least three vertices, no edge of length zero,
\* neighbouring edges meet in their common vertex only, other edges not at all.
IsSimple(s) ==
    LET n == Len(s)
    IN /\ n >= 3
       /\ \A i \in 1..n : s[i] # s[NextIdx(s, i)]
       /\ \A i \in 1..n : ~FoldsBack(s[i], s[NextIdx(s, i)], s[NextIdx(s, NextIdx(s, i))])
       /\ \A i, j \in 1..n :
             (i < j /\ NextIdx(s, i) # j /\ NextIdx(s, j) # i) =>
                 ~SegmentsMeet(s[i], s[NextIdx(s, i)], s[j], s[NextIdx(s, j)])

\* C6: is_front_facing is true exactly when the trapezoid sum is negative;
\* reversing a simple closed polygon flips the answer; a polygon of sum zero
\* is back-facing in both orders.
C6_Winding ==
    pc = "return" =>
        LET P == call.faces
        IN /\ ret.value = (TrapezoidSum(P) < 0)
           /\ IsSimple(P) => is_front_facing(Reverse(P)) = ~ret.value
           /\ TrapezoidSum(P) = 0 =>
                 (~ret.value /\ ~is_front_facing(Reverse(P)))

\* The unit square of the spec's scenario, (0,0),(1,0),(1,1),(0,1): simple,
\* front-facing, back-facing when reversed.
C6_Witness ==
    /\ pc = "return"
    /\ call.faces = <<<<0, 0>>, <<1, 0>>, <<1, 1>>, <<0, 1>>>>
    /\ IsSimple(call.faces)
    /\ ret.value
    /\ ~is_front_facing(Reverse(call.faces))

\* --------------------------------------------------------------- edge model
FacePairs(f) == {Canon(f[i], f[NextIdx(f, i)]) : i \in 1..Len(f)}

Distinct(f) == Cardinality(SeqToSet(f)) = Len(f)

\* C8 as stated: a face of N >= 2 indices yields exactly N edges, each keyed
\* by the canonical pair.
C8_ExactlyN ==
    (pc = "return" /\ Len(call.face_uvs) >= 2) =>
        /\ Len(ret.value) = Len(call.face_uvs)
        /\ KeySet(ret.value) = FacePairs(call.face_uvs)

\* C8 amended: the face yields one edge per distinct canonical pair among
\* its N consecutive pairs (wrap pair included), each with the positions of
\* its two ends: never more than N, exactly N for N >= 3 pairwise distinct
\* indices, exactly one for N = 2.
C8_EdgePerDistinctPair ==
    pc = "return" =>
        LET f == call.face_uvs
            edges == ret.value
        IN /\ KeySet(edges) = FacePairs(f)
           /\ Len(edges) = Cardinality(FacePairs(f))
           /\ Len(edges) <= Len(f)
           /\ (Len(f) >= 3 /\ Distinct(f)) => Len(edges) = Len(f)
           /\ Len(f) = 2 => Len(edges) = 1
           /\ \A i \in 1..Len(edges) :
                 edges[i][2] = <<call.uv_positions[edges[i][1][1]],
                                 call.uv_positions[edges[i][1][2]]>>

\* The face [1, 0]: both consecutive pairs are the edge {0, 1}.
C8_Witness ==
    /\ pc = "return"
    /\ call.face_uvs = <<1, 0>>
    /\ ret.value = << <<<<0, 1>>, <<IndexedPositions[0], IndexedPositions[1]>>>> >>

\* ------------------------------------------------------------ tile identity
InRange(p) == 0 <= p[1] /\ p[1] <= UMax * Scale /\ p[2] >= 0

\* The unit square of a fixed-point coordinate.
UnitSquare(p) == <<p[1] \div Scale, p[2] \div Scale>>

\* C10: two coordinates of the supported range get the same tile id only if
\* they lie in the same unit square.
C10_TileIdentity ==
    (pc = "return" /\ InRange(call.a) /\ InRange(call.b)
                   /\ ret.value[1] = ret.value[2]) =>
        UnitSquare(call.a) = UnitSquare(call.b)

\* ------------------------------------------------------------ output naming
Markers(s) == {i \in 1..Len(s) : s[i] = "#"}

\* The pattern with the tile's id in the place of its marker.
AtMarker(s, tile) ==
    LET k == CHOOSE i \in Markers(s) : TRUE
    IN SubSeq(s, 1, k - 1) \o PyStr(tile) \o SubSeq(s, k + 1, Len(s))

\* C7: the run does not fail on the output pattern, and when it is over one
\* file is written per canvas: the pattern with the tile id at its marker,
\* or the pattern itself when it has no marker.
C7_OutputNaming ==
    /\ Cardinality(Markers(output_path)) <= 1 => error # "ValueError"
    /\ pc = "done" =>
          /\ Len(files) = Len(skia_surfaces)
          /\ \A i \in 1..Len(files) :
                files[i] = IF Cardinality(Markers(output_path)) = 1
                           THEN AtMarker(output_path, skia_surfaces[i])
                           ELSE output_path

====
